---- MODULE Spec2Model ----
(***************************************************************************)
(* tap-ms-dynamics: the request / authentication / retry machinery of      *)
(* DynamicsClient (src/tap_dynamics/client.py).                            *)
(*                                                                         *)
(* One _make_request call is a sequence of attempts.  Each attempt runs    *)
(* _ensure_access_token (with _write_config when the refresh token is      *)
(* rotated) and then sends the data request.  The two stacked              *)
(* backoff.on_exception decorators decide, for the exception an attempt    *)
(* raises, whether the call sleeps and tries again or ends.                *)
(*                                                                         *)
(* Time is counted in whole seconds and passes only while the process      *)
(* sleeps or waits to be called; a jittered sleep, a real number in the    *)
(* code, is any whole number of seconds of its range.  A Retry-After       *)
(* header is held in tenths of a second (15 is the text "1.5", 30 is the   *)
(* text "3").  A run holds one _make_request call; what earlier calls      *)
(* leave behind is part of the initial state.  The identity endpoint's     *)
(* 200 answers are well formed: access_token, refresh_token, expires_in.   *)
(*                                                                         *)
(* Three specifications share the module's variables, each leaving the     *)
(* variables of the other two at rest: Spec, one _make_request call on a   *)
(* client; CallsSpec, the functions of client.py that are called on their  *)
(* own; SyncSpec, the loop of sync (src/tap_dynamics/sync.py).             *)
(***************************************************************************)
EXTENDS Integers, FiniteSets, Sequences, TLC

\* ---------------------------------------------------------------- bounds
\* the clock stops the run at MaxTime seconds
MaxTime == 9

\* ------------------------------------------------------ program constants
MAX_PAGESIZE == 5000
MAX_RETRIES == 5
MAX_SELECT_PARAM_SIZE == 1800
PAD == 10
EXPO_BASE == 2
EXPO_FACTOR == 2

NONE == "None"
\* None where the other values are numbers: <<>>, and <<x>> for the number x
NoTime == <<>>
NoHeader == <<>>

\* ------------------------------------------------- environment's answers
AccessTokens == {"at1"}
RefreshTokens == {"rt0", "rt1"}
\* expires_in of a token response; 8 is a lifetime shorter than the pad
ExpiresInValues == {8, 12}
\* statuses the identity endpoint answers a refresh with
PostStatuses == {200, 400, 500}
\* statuses the data endpoint answers with
Statuses == {200, 404, 429, 500}
\* Retry-After header of a response, in tenths of a second (<<15>> is "1.5"), or absent
RetryAfterHeaders == {NoHeader, <<15>>, <<30>>}
\* text of a requests ConnectionError raised by session.request
ConnErrorTexts == {"nodename nor servname provided, or not known",
                   "Name or service not known", "Connection refused"}

NoResponse == [id |-> 0, status |-> 0, retry_after |-> NoHeader]
NoIssue == [at |-> 0, expires_in |-> 0]

VARIABLES
    now,            \* datetime.utcnow(), in seconds
    pc,             \* "idle", "ensure", "write_dump", "send", "raised", "crashed"
    access_token,   \* self.access_token
    expires_at,     \* self.expires_at
    refresh_token,  \* self.refresh_token
    config_file,    \* content of the file at config_path: its refresh_token, or "truncated"
    expires_in,     \* data.get('expires_in') of the refresh in progress
    triesA,         \* tries of the retry_after_wait_gen layer (outer decorator)
    triesB,         \* tries of the backoff.expo layer (inner decorator)
    expo_n,         \* n of the backoff.expo generator of the inner layer
    sent,           \* data requests sent by the current call
    response,       \* the response session.request returned in this attempt
    conn_error,     \* text of the ConnectionError session.request raised in this attempt
    exc,            \* the exception this attempt raised, on its way through the decorators
    outcome,        \* how the last call ended: [kind, resp]
    exhausted,      \* the layer whose max_tries ended the last call: "A", "B" or NONE
    refreshPosted,  \* what the token check of this attempt did: "no", "ok", "non200", "connerr"
    heldBefore,     \* self.refresh_token when the token check of this attempt began
    wroteConfig,    \* the config file was written during this attempt
    issued,         \* when the held token was issued and with what expires_in
    lastWait,       \* the last sleep of the inner layer since it was entered, in seconds
    allHttpErr,     \* every attempt of this call so far got a 5xx / non-429 4xx response
    fn,             \* the function of client.py called on its own: its name, or NONE
    args,           \* the arguments of that call
    result,         \* what that call returned or raised; NoResult until it has
    catalog,        \* sync's catalog: the streams, in catalog order, each selected or not
    state,          \* sync's state: currently_syncing and the bookmark of each stream
    state_in,       \* the state sync was called with
    todo,           \* the streams catalog.get_selected_streams(state) has yet to yield
    sync_pc,        \* where sync is: "call", "loop", "schema", "stream", "returned",
                    \* "done", "failed"
    stream,         \* tap_stream_id of the stream of this iteration, or NONE
    fetched,        \* pages the stream of this iteration has fetched and processed
    written         \* the messages written to stdout so far, in order

vars == <<now, pc, access_token, expires_at, refresh_token, config_file,
          expires_in, triesA, triesB, expo_n, sent, response, conn_error, exc, outcome,
          exhausted, refreshPosted, heldBefore, wroteConfig, issued, lastWait, allHttpErr,
          fn, args, result,
          catalog, state, state_in, todo, sync_pc, stream, fetched, written>>

\* the variables of one _make_request call on a client
clientVars == <<now, pc, access_token, expires_at, refresh_token, config_file,
                expires_in, triesA, triesB, expo_n, sent, response, conn_error, exc, outcome,
                exhausted, refreshPosted, heldBefore, wroteConfig, issued, lastWait,
                allHttpErr>>
\* the variables of a function called on its own
callVars == <<fn, args, result>>
\* the variables of sync
syncVars == <<catalog, state, state_in, todo, sync_pc, stream, fetched, written>>

tokenVars == <<access_token, expires_at, refresh_token, config_file, expires_in, issued>>
attemptVars == <<response, conn_error, refreshPosted, heldBefore, wroteConfig>>
retryVars == <<triesA, triesB, expo_n, lastWait>>

NoOutcome == [kind |-> "none", resp |-> 0]
NoExc == [kind |-> "none", resp |-> 0]

\* --------------------------------------------------------- pure helpers
RECURSIVE Pow(_, _)
Pow(b, n) == IF n = 0 THEN 1 ELSE b * Pow(b, n - 1)

\* mutant of expo: factor=4
expoFactor4(n) == 4 * Pow(EXPO_BASE, n)

\* backoff.expo(base=2, factor=2): the value the generator yields at state n
expo(n) == EXPO_FACTOR * Pow(EXPO_BASE, n)

\* math.floor(float(sleep_time_str)) on a header held in tenths of a second
retry_after_wait_gen(header) == header[1] \div 10

\* backoff's default jitter (neither decorator passes jitter=): random.uniform(0, value)
full_jitter(value) == 0 .. value

\* mutants of NeedsRefresh: the comparison made strict; the check made on the first attempt only
NeedsRefreshStrict == access_token = NONE \/ expires_at[1] < now
NeedsRefreshFirstAttempt ==
    triesA = 1 /\ triesB = 1 /\ (access_token = NONE \/ expires_at[1] <= now)

\* the condition of _ensure_access_token's if
NeedsRefresh == access_token = NONE \/ expires_at[1] <= now

\* the padded expiry _ensure_access_token stores
PaddedExpiry(t, e) == t + e - PAD

\* mutant of ExpoExceptions: the inner layer retries on every exception
ExpoExceptionsAny == {"Dynamics5xxException", "Dynamics4xxException", "ConnectionError",
                      "AuthInvalid", "InvalidUrl", "UnboundLocalError"}

\* the exception classes each decorator retries on
ExpoExceptions == {"Dynamics5xxException", "Dynamics4xxException", "ConnectionError"}
RetryAfterExceptions == {"Dynamics429Exception"}

\* mutant of Classify: the test for 429 placed after the test for >= 400
Classify429Last(r) ==
    IF r.status >= 500 THEN [kind |-> "Dynamics5xxException", resp |-> r.id]
    ELSE IF r.status >= 400 THEN [kind |-> "Dynamics4xxException", resp |-> r.id]
    ELSE IF r.status = 429 THEN [kind |-> "Dynamics429Exception", resp |-> r.id]
    ELSE [kind |-> "ok", resp |-> r.id]

\* the if / elif chain on response.status_code: the exception raised, or "ok"
Classify(r) ==
    IF r.status >= 500 THEN [kind |-> "Dynamics5xxException", resp |-> r.id]
    ELSE IF r.status = 429 THEN [kind |-> "Dynamics429Exception", resp |-> r.id]
    ELSE IF r.status >= 400 THEN [kind |-> "Dynamics4xxException", resp |-> r.id]
    ELSE [kind |-> "ok", resp |-> r.id]

\* the test on str(e) in the except block of session.request
IsDnsFailure(text) ==
    \/ text = "nodename nor servname provided, or not known"
    \/ text = "Name or service not known"

\* ------------------------------------------------------------- the state
\* The client outlives a call only through access_token, expires_at, refresh_token and
\* the config file: Init ranges over what construction or an earlier call leaves there.
\* The client is constructed with the refresh_token of the config file at config_path.
ClientInit ==
    /\ now = 0
    /\ pc = "idle"
    /\ \/ \* a client just constructed
          /\ access_token = NONE
          /\ expires_at = NoTime
          /\ issued = NoIssue
       \/ \* a client whose earlier call obtained a token at time 0
          \E at \in AccessTokens, e \in ExpiresInValues :
             /\ access_token = at
             /\ expires_at = <<PaddedExpiry(0, e)>>
             /\ issued = [at |-> 0, expires_in |-> e]
    /\ refresh_token = "rt0"
    /\ config_file = "rt0"
    /\ expires_in = 0
    /\ triesA = 1
    /\ triesB = 1
    /\ expo_n = 0
    /\ sent = 0
    /\ response = NoResponse
    /\ conn_error = NONE
    /\ exc = NoExc
    /\ outcome = NoOutcome
    /\ exhausted = NONE
    /\ refreshPosted = "no"
    /\ heldBefore = "rt0"
    /\ wroteConfig = FALSE
    /\ lastWait = NoTime
    /\ allHttpErr = TRUE

\* no function is called on its own
NoCall ==
    /\ fn = NONE
    /\ args = <<>>
    /\ result = <<>>

\* sync is not called
NoSync ==
    /\ catalog = <<>>
    /\ state = <<>>
    /\ state_in = <<>>
    /\ todo = <<>>
    /\ sync_pc = "none"
    /\ stream = NONE
    /\ fetched = 0
    /\ written = <<>>

Init ==
    /\ ClientInit
    /\ NoCall
    /\ NoSync

\* time passes before the call is made
Tick ==
    /\ pc = "idle"
    /\ outcome = NoOutcome
    /\ now < MaxTime
    /\ now' = now + 1
    /\ UNCHANGED <<pc, tokenVars, retryVars, sent, attemptVars, exc, outcome, exhausted,
                   allHttpErr>>
    /\ UNCHANGED <<callVars, syncVars>>

\* a caller enters the decorated _make_request: both layers start at tries = 1
StartCall ==
    /\ pc = "idle"
    /\ outcome = NoOutcome
    /\ pc' = "ensure"
    /\ triesA' = 1
    /\ triesB' = 1
    /\ expo_n' = 0
    /\ lastWait' = NoTime
    /\ UNCHANGED <<now, tokenVars, sent, attemptVars, exc, outcome, exhausted, allHttpErr>>
    /\ UNCHANGED <<callVars, syncVars>>

\* the body of _make_request raises e
Raise(e) ==
    /\ pc' = "raised"
    /\ exc' = e

\* mutant of RefreshRejected: the stale access token is dropped before the raise
RefreshRejectedDropsToken ==
    /\ refreshPosted' = "non200"
    /\ allHttpErr' = FALSE
    /\ access_token' = NONE
    /\ UNCHANGED <<expires_at, refresh_token, config_file, expires_in, issued>>
    /\ Raise([kind |-> "AuthInvalid", resp |-> 0])

\* _ensure_access_token when response.status_code != 200: the raise of AuthInvalid
RefreshRejected ==
    /\ refreshPosted' = "non200"
    /\ allHttpErr' = FALSE
    /\ UNCHANGED tokenVars
    /\ Raise([kind |-> "AuthInvalid", resp |-> 0])

\* _ensure_access_token, up to the point where _write_config has opened the file for writing
EnsureAccessToken ==
    /\ pc = "ensure"
    /\ heldBefore' = refresh_token
    /\ UNCHANGED <<now, retryVars, sent, response, conn_error, wroteConfig, outcome, exhausted>>
    /\ IF ~NeedsRefresh
       THEN /\ refreshPosted' = "no"
            /\ pc' = "send"
            /\ UNCHANGED <<tokenVars, exc, allHttpErr>>
       ELSE \/ \* session.post raises requests.ConnectionError
               /\ refreshPosted' = "connerr"
               /\ allHttpErr' = FALSE
               /\ UNCHANGED tokenVars
               /\ Raise([kind |-> "ConnectionError", resp |-> 0])
            \/ \* response.status_code != 200
               /\ \E status \in PostStatuses \ {200} : TRUE
               /\ RefreshRejected
            \/ \* 200: data = response.json()
               \E at \in AccessTokens, rt \in RefreshTokens, e \in ExpiresInValues :
                  /\ refreshPosted' = "ok"
                  /\ access_token' = at
                  /\ UNCHANGED <<exc, allHttpErr>>
                  /\ IF refresh_token # rt
                     THEN \* _write_config(rt): self.refresh_token = rt, json.load of the
                          \* file, then open(config_path, 'w'), which truncates it
                          /\ refresh_token' = rt
                          /\ expires_in' = e
                          /\ config_file' = "truncated"
                          /\ pc' = "write_dump"
                          /\ UNCHANGED <<expires_at, issued>>
                     ELSE /\ expires_at' = <<PaddedExpiry(now, e)>>
                          /\ issued' = [at |-> now, expires_in |-> e]
                          /\ pc' = "send"
                          /\ UNCHANGED <<refresh_token, expires_in, config_file>>
    /\ UNCHANGED <<callVars, syncVars>>

\* mutant of WriteConfigDump: the token held before the refresh is the one written
WriteConfigDumpStale ==
    /\ pc = "write_dump"
    /\ config_file' = heldBefore
    /\ wroteConfig' = TRUE
    /\ expires_at' = <<PaddedExpiry(now, expires_in)>>
    /\ issued' = [at |-> now, expires_in |-> expires_in]
    /\ expires_in' = 0
    /\ pc' = "send"
    /\ UNCHANGED <<now, access_token, refresh_token, retryVars, sent, response, conn_error,
                   exc, outcome, exhausted, refreshPosted, heldBefore, allHttpErr>>
    /\ UNCHANGED <<callVars, syncVars>>

\* _write_config: json.dump and close; back in _ensure_access_token, expires_at is set
WriteConfigDump ==
    /\ pc = "write_dump"
    /\ config_file' = refresh_token
    /\ wroteConfig' = TRUE
    /\ expires_at' = <<PaddedExpiry(now, expires_in)>>
    /\ issued' = [at |-> now, expires_in |-> expires_in]
    /\ expires_in' = 0
    /\ pc' = "send"
    /\ UNCHANGED <<now, access_token, refresh_token, retryVars, sent, response, conn_error,
                   exc, outcome, exhausted, refreshPosted, heldBefore, allHttpErr>>
    /\ UNCHANGED <<callVars, syncVars>>

\* the process dies between open(config_path, 'w') and the end of json.dump
Crash ==
    /\ pc = "write_dump"
    /\ pc' = "crashed"
    /\ UNCHANGED <<now, tokenVars, retryVars, sent, attemptVars, exc, outcome, exhausted,
                   allHttpErr>>
    /\ UNCHANGED <<callVars, syncVars>>

\* the rest of the body of _make_request: session.request and the classification
SendRequest ==
    /\ pc = "send"
    /\ sent' = sent + 1
    /\ UNCHANGED <<now, tokenVars, retryVars, refreshPosted, heldBefore, wroteConfig>>
    /\ \/ \* session.request raises requests.exceptions.ConnectionError
          \E text \in ConnErrorTexts :
             /\ conn_error' = text
             /\ allHttpErr' = FALSE
             /\ UNCHANGED <<response, outcome, exhausted>>
             /\ IF IsDnsFailure(text)
                THEN Raise([kind |-> "InvalidUrl", resp |-> 0])
                ELSE \* nothing is raised in the except block: response is unbound below it
                     Raise([kind |-> "UnboundLocalError", resp |-> 0])
       \/ \* a response arrives
          \E status \in Statuses :
          \E header \in IF status = 429 THEN RetryAfterHeaders ELSE {NoHeader} :
             LET r == [id |-> sent + 1, status |-> status, retry_after |-> header]
                 e == Classify(r)
             IN /\ response' = r
                /\ UNCHANGED conn_error
                /\ allHttpErr' = (allHttpErr /\ e.kind \in {"Dynamics5xxException",
                                                               "Dynamics4xxException"})
                /\ IF e.kind = "ok"
                   THEN /\ pc' = "idle"
                        /\ outcome' = e
                        /\ UNCHANGED <<exc, exhausted>>
                   ELSE /\ Raise(e)
                        /\ UNCHANGED <<outcome, exhausted>>
    /\ UNCHANGED <<callVars, syncVars>>

\* mutant of EndCall: the error of the call's first request is the one re-raised
EndCallFirstError(e, layer) ==
    /\ pc' = "idle"
    /\ outcome' = [e EXCEPT !.resp = IF e.resp = 0 THEN 0 ELSE 1]
    /\ exhausted' = layer
    /\ UNCHANGED <<now, retryVars, attemptVars>>

\* the exception leaves both decorators: the call ends with it
EndCall(e, layer) ==
    /\ pc' = "idle"
    /\ outcome' = e
    /\ exhausted' = layer
    /\ UNCHANGED <<now, retryVars, attemptVars>>

\* a new attempt: the body of _make_request is entered again
NextAttempt ==
    /\ pc' = "ensure"
    /\ response' = NoResponse
    /\ conn_error' = NONE
    /\ refreshPosted' = "no"
    /\ wroteConfig' = FALSE
    /\ heldBefore' = refresh_token
    /\ UNCHANGED <<outcome, exhausted>>

\* time.sleep(seconds), then the next attempt of the inner layer
RetryB(seconds) ==
    /\ now + seconds <= MaxTime
    /\ now' = now + seconds
    /\ triesB' = triesB + 1
    /\ expo_n' = expo_n + 1
    /\ lastWait' = <<seconds>>
    /\ UNCHANGED triesA
    /\ NextAttempt

\* mutant of RetryA: the inner layer goes on with the tries it had
RetryAKeepsInnerTries(seconds) ==
    /\ now + seconds <= MaxTime
    /\ now' = now + seconds
    /\ triesA' = triesA + 1
    /\ UNCHANGED <<triesB, expo_n, lastWait>>
    /\ NextAttempt

\* time.sleep(seconds), then the outer layer calls the inner retry function afresh
RetryA(seconds) ==
    /\ now + seconds <= MaxTime
    /\ now' = now + seconds
    /\ triesA' = triesA + 1
    /\ triesB' = 1
    /\ expo_n' = 0
    /\ lastWait' = NoTime
    /\ NextAttempt

\* the outer decorator: on_exception(retry_after_wait_gen, Dynamics429Exception, max_tries=5)
OuterLayer(e, innerGaveUp) ==
    IF e.kind \in RetryAfterExceptions
    THEN IF triesA = MAX_RETRIES
         THEN EndCall(e, "A")
         ELSE IF response.retry_after = NoHeader
              THEN \* float(None) in retry_after_wait_gen
                   EndCall([kind |-> "TypeError", resp |-> 0], NONE)
              ELSE \E seconds \in full_jitter(retry_after_wait_gen(response.retry_after)) :
                      RetryA(seconds)
    ELSE EndCall(e, IF innerGaveUp THEN "B" ELSE NONE)

\* the inner decorator: on_exception(backoff.expo, (5xx, 4xx, ConnectionError), max_tries=5, factor=2)
InnerLayer(e) ==
    IF e.kind \in ExpoExceptions
    THEN IF triesB = MAX_RETRIES
         THEN OuterLayer(e, TRUE)
         ELSE \E seconds \in full_jitter(expo(expo_n)) : RetryB(seconds)
    ELSE OuterLayer(e, FALSE)

\* the exception an attempt raised goes through the inner decorator, then the outer one
Backoff ==
    /\ pc = "raised"
    /\ InnerLayer(exc)
    /\ exc' = NoExc
    /\ UNCHANGED <<tokenVars, sent, allHttpErr>>
    /\ UNCHANGED <<callVars, syncVars>>

Next ==
    \/ Tick
    \/ StartCall
    \/ EnsureAccessToken
    \/ WriteConfigDump
    \/ Crash
    \/ SendRequest
    \/ Backoff

Spec == Init /\ [][Next]_vars

\* ------------------------------------------------------------ the claims
HttpErrors == {"Dynamics5xxException", "Dynamics4xxException"}
Finished == pc = "idle" /\ outcome # NoOutcome

\* C1: every _ensure_access_token posts a refresh if and only if no access token is held
\* or the time is at or past (issue time + expires_in - 10 s); a held token whose padded
\* expiry has not elapsed is never refreshed.
C1_RefreshIffExpired ==
    [][pc = "ensure" =>
          ((refreshPosted' # "no") <=>
              (access_token = NONE \/ now >= issued.at + issued.expires_in - 10))]_vars

\* a retry attempt, later than the issue time, that kept the held token
C1_Witness ==
    /\ pc = "send"
    /\ refreshPosted = "no"
    /\ sent >= 1
    /\ now > issued.at

\* C2 as stated: every data request, retries included, is sent with a token whose padded
\* expiry had not passed when the attempt's token check ran.
C2_TokenNotPastPaddedExpiry ==
    pc = "send" => (access_token # NONE /\ expires_at[1] > now)

\* C2 as amended: every data request, retries included, follows a token check of its own
\* attempt, and the token it is sent with either has a padded expiry that had not passed
\* at that check or was issued by that very check's refresh with expires_in <= 10.
C2_CheckedOnEachAttempt ==
    pc = "send" =>
        /\ access_token # NONE
        /\ \/ expires_at[1] > now
           \/ refreshPosted = "ok" /\ issued.at = now /\ issued.expires_in <= 10

\* a retry after a sleep whose token check refreshed a token that is then valid
C2_Witness ==
    /\ pc = "send"
    /\ triesB > 1
    /\ lastWait # NoTime
    /\ lastWait[1] >= 2
    /\ refreshPosted = "ok"
    /\ expires_at[1] > now

\* C3: after a 429 the wait before the next attempt is exactly floor(Retry-After) seconds.
C3_WaitIsFloorRetryAfter ==
    [][(pc = "raised" /\ exc.kind = "Dynamics429Exception" /\ pc' = "ensure") =>
          now' - now = response.retry_after[1] \div 10]_vars

\* C4 as stated: while every attempt gets a 5xx or a non-429 4xx, each wait is double the
\* previous one, and the call fails after exactly 5 attempts.
C4_WaitsDouble ==
    [][/\ (pc = "raised" /\ allHttpErr /\ pc' = "ensure" /\ lastWait # NoTime) =>
              now' - now = 2 * lastWait[1]
       /\ (pc = "raised" /\ allHttpErr /\ pc' = "idle") => sent = 5]_vars

\* C4 as amended: while every attempt gets a 5xx or a non-429 4xx, the wait before attempt
\* k+1 is at most 2 * 2^(k-1) seconds (2, 4, 8, 16: each bound double the previous one), and
\* the call fails with the last error after exactly MAX_RETRIES = 5 attempts, no sixth request.
C4_WaitsBoundedAndFiveAttempts ==
    [][/\ (pc = "raised" /\ allHttpErr /\ pc' = "ensure") =>
              /\ now' - now <= 2 * Pow(2, triesB - 1)
              /\ triesB < 5
              /\ triesB' = triesB + 1
              /\ sent = triesB
       /\ (pc = "raised" /\ allHttpErr /\ pc' = "idle") =>
              (sent = 5 /\ triesB = 5 /\ outcome' = exc /\ exc.kind \in HttpErrors)
       /\ allHttpErr' => sent' <= 5]_vars

\* five attempts that all got a 5xx or a non-429 4xx, with time slept between them
C4_Witness ==
    /\ Finished
    /\ allHttpErr
    /\ sent = 5
    /\ exhausted = "B"
    /\ lastWait # NoTime
    /\ lastWait[1] >= 3

\* C5: a connection failure of the data request that is not a DNS failure is classified
\* ConnectionFailure and retried by the exponential layer; it ends the call with no other,
\* non-retryable error.
C5_ConnectionFailureRetried ==
    (conn_error # NONE /\ ~IsDnsFailure(conn_error)) =>
        /\ pc = "raised" => exc.kind = "ConnectionError"
        /\ Finished => (outcome.kind = "ConnectionError" /\ exhausted = "B")

\* C6: AuthInvalid and InvalidUrl are never retried: a refresh answered with a non-200
\* status, or a data request failing on name resolution, ends the call at once with that
\* error, with no sleep and no further HTTP attempt, whatever retries remain.
C6_TerminalErrorsNotRetried ==
    [][/\ (pc = "ensure" /\ refreshPosted' = "non200") =>
              (pc' = "raised" /\ exc'.kind = "AuthInvalid" /\ now' = now /\ sent' = sent)
       /\ (pc = "send" /\ conn_error' # NONE /\ IsDnsFailure(conn_error')) =>
              (pc' = "raised" /\ exc'.kind = "InvalidUrl" /\ now' = now)
       /\ (pc = "raised" /\ exc.kind \in {"AuthInvalid", "InvalidUrl"}) =>
              (pc' = "idle" /\ outcome' = exc /\ now' = now /\ sent' = sent)
       /\ Finished => FALSE]_vars

\* a call ended by AuthInvalid on a retry, with tries left in both layers
C6_Witness ==
    /\ Finished
    /\ outcome.kind = "AuthInvalid"
    /\ triesA \in 2 .. 4
    /\ triesB \in 2 .. 4

\* C7: when the retries of either layer are exhausted, the error that reaches the caller is
\* the classified error of the last attempt, carrying the last attempt's response.
C7_LastErrorSurfaces ==
    (Finished /\ exhausted # NONE) =>
        /\ exhausted = "A" => (triesA = 5 /\ outcome.kind = "Dynamics429Exception")
        /\ exhausted = "B" => triesB = 5
        /\ IF outcome.kind = "ConnectionError"
           THEN refreshPosted = "connerr" /\ outcome.resp = 0
           ELSE /\ response.id = sent
                /\ outcome.resp = sent
                /\ response.status >= 400
                /\ outcome.kind = "Dynamics5xxException" <=> response.status >= 500
                /\ outcome.kind = "Dynamics429Exception" <=> response.status = 429
                /\ outcome.kind = "Dynamics4xxException" <=>
                       (response.status < 500 /\ response.status # 429)

\* the inner layer exhausted after earlier attempts of the call were rate-limited
C7_Witness ==
    /\ Finished
    /\ exhausted = "B"
    /\ triesA > 1
    /\ outcome.kind = "Dynamics5xxException"
    /\ sent > 5

\* C8: a refresh that returns a refresh token different from the held one rewrites the
\* config file with it and updates the in-memory token before the data request of that
\* attempt; a refresh that returns the held token writes nothing; so when the data request
\* is sent the in-memory refresh token equals the config file's.
C8_RotationPersistedBeforeSend ==
    pc = "send" =>
        /\ config_file = refresh_token
        /\ refreshPosted = "ok" => (wroteConfig <=> refresh_token # heldBefore)
        /\ refreshPosted # "ok" => (~wroteConfig /\ refresh_token = heldBefore)

\* a rotated refresh token, in memory and in the file, as the data request is sent
C8_Witness ==
    /\ pc = "send"
    /\ refreshPosted = "ok"
    /\ wroteConfig
    /\ heldBefore = "rt0"
    /\ refresh_token = "rt1"
    /\ config_file = "rt1"

\* C9: the config file always holds a complete credential set, the old one or the new one,
\* also while _write_config runs and after a crash in it.
C9_ConfigFileAllOrNothing == config_file \in RefreshTokens

\* C10: a refresh answered with a status other than 200 raises AuthInvalid, sends no data
\* request for that attempt, and leaves access token, expiry, in-memory refresh token and
\* config file as they were.
C10_AuthInvalidLeavesTokenState ==
    [][/\ (pc = "ensure" /\ refreshPosted' = "non200") =>
              /\ exc' = [kind |-> "AuthInvalid", resp |-> 0]
              /\ UNCHANGED <<access_token, expires_at, refresh_token, config_file, sent>>
       /\ (pc = "raised" /\ exc.kind = "AuthInvalid") =>
              /\ outcome'.kind = "AuthInvalid"
              /\ Finished'
              /\ UNCHANGED <<access_token, expires_at, refresh_token, config_file, sent>>]_vars

\* a call ended by AuthInvalid that still holds the expired token it held before
C10_Witness ==
    /\ Finished
    /\ outcome.kind = "AuthInvalid"
    /\ refreshPosted = "non200"
    /\ access_token # NONE
    /\ expires_at[1] <= now

\* a _make_request call is under way
InCall == pc \in {"ensure", "write_dump", "send", "raised"}

\* C18: one _make_request call sends at most 25 requests: the retry_after_wait_gen layer
\* enters the backoff.expo layer at most 5 times, each time with a fresh count of 5 tries,
\* whatever the order of 429, 5xx and 4xx responses; and the call ends: a call under way
\* always has a next step, and each retry uses up one try of a layer whose tries are bounded.
C18_AtMost25RequestsAndEnds ==
    /\ [](/\ triesA \in 1 .. 5
          /\ triesB \in 1 .. 5
          /\ sent <= 5 * (triesA - 1) + triesB
          /\ sent <= 25
          /\ InCall => ENABLED Next)
    /\ [][(pc = "raised" /\ pc' = "ensure") =>
              IF exc.kind = "Dynamics429Exception"
              THEN triesA' = triesA + 1 /\ triesB' = 1
              ELSE triesA' = triesA /\ triesB' = triesB + 1]_vars

\* a call that ended after 25 requests: five rounds of four 5xx or 4xx and a last response
C18_Witness ==
    /\ Finished
    /\ sent = 25
    /\ triesA = 5
    /\ triesB = 5

\* ======================================================================
\* Functions of client.py called on their own: the status check of
\* _make_request, get's translation of what _make_request raised,
\* build_params, build_select_params and the page size __init__ stores.
\* A text built by an f-string or a join is the sequence of its pieces.
\* ======================================================================

\* ---------------------------------------------------------------- bounds
\* the longest desired_columns list
MaxColumns == 3

\* ---------------------------------------------------------------- inputs
\* response.status_code
StatusCodes == 100 .. 599

\* column names an orderby_key or a replication_key is
KeyColumns == {"modifiedon", "createdon", "overriddencreatedon", "versionnumber"}
\* filter_value: None, the empty text, a bookmark
FilterValues == {NONE, "", "2023-01-01T00:00:00Z", "2023-06-30T12:00:00Z"}

\* column names of desired_columns, each with its length in characters
Columns == {[name |-> "c1", len |-> 1], [name |-> "c899", len |-> 899],
            [name |-> "c900", len |-> 900], [name |-> "c1800", len |-> 1800],
            [name |-> "c1801", len |-> 1801]}
ColumnNames == {c.name : c \in Columns}
\* desired_columns: None is <<>>, a list l is <<l>>
NoColumns == <<>>
ColumnLists == UNION {[1 .. n -> ColumnNames] : n \in 0 .. MaxColumns}
DesiredColumns == {NoColumns} \cup {<<l>> : l \in ColumnLists}

\* max_pagesize as configured: None is <<>>, a number n is <<n>>
NoPagesize == <<>>
Pagesizes == {NoPagesize} \cup {<<n>> : n \in {0, 1, 100, 4999, 5000, 5001, 10000}}

\* a member of the object error of a JSON body: missing, null (<<NONE>>) or a text
Missing == <<>>
MessageValues == {Missing, <<NONE>>, <<"Resource not found for the segment">>}
CodeValues == {Missing, <<NONE>>, <<"0x8006088a">>}
\* response bodies: not JSON, JSON without an object under "error", JSON with one
NotJson == [json |-> FALSE, error |-> "absent", message |-> Missing, code |-> Missing]
Bodies ==
    {NotJson}
    \cup {[json |-> TRUE, error |-> e, message |-> Missing, code |-> Missing] :
             e \in {"absent", "text"}}
    \cup {[json |-> TRUE, error |-> "object", message |-> m, code |-> c] :
             m \in MessageValues, c \in CodeValues}

\* the subclasses of DynamicsException that _make_request raises
DynamicsExceptions == {"Dynamics5xxException", "Dynamics4xxException", "Dynamics429Exception"}
\* what else a _make_request call ends with: a result, or an exception of another class
OtherOutcomes == {"ok", "AuthInvalid", "InvalidUrl", "UnboundLocalError", "ConnectionError",
                  "TypeError"}
GetInputs ==
    {[raised |-> k, body |-> b] : k \in DynamicsExceptions, b \in Bodies}
    \cup {[raised |-> k, body |-> NotJson] : k \in OtherOutcomes}

NoResult == [kind |-> "none", value |-> <<>>]
Return(v) == [kind |-> "return", value |-> v]
Raises(v) == [kind |-> "raise", value |-> v]

\* ------------------------------------------------------------- functions
\* the decorator that retries the exception the status check raises
Layer(kind) ==
    IF kind \in ExpoExceptions THEN "expo"
    ELSE IF kind \in RetryAfterExceptions THEN "retry_after"
    ELSE "none"

\* mutant of InitMaxPagesize: the configured value stored as it is
InitMaxPagesizeUncapped(max_pagesize) ==
    IF max_pagesize = NoPagesize THEN MAX_PAGESIZE ELSE max_pagesize[1]

\* self.max_pagesize as __init__ stores it
InitMaxPagesize(max_pagesize) ==
    LET configured == IF max_pagesize = NoPagesize THEN MAX_PAGESIZE ELSE max_pagesize[1]
    IN IF configured <= MAX_PAGESIZE THEN configured ELSE MAX_PAGESIZE

\* Python's truth value of filter_value
Truthy(v) == v # NONE /\ v # ""

\* mutant of build_params: the filter added whenever filter_value is not None
build_paramsNotNone(orderby_key, replication_key, filter_value) ==
    IF filter_value # NONE
    THEN ("$orderby" :> <<orderby_key, " asc">>)
         @@ ("$filter" :> <<replication_key, " ge ", filter_value>>)
    ELSE ("$orderby" :> <<orderby_key, " asc">>)

build_params(orderby_key, replication_key, filter_value) ==
    IF Truthy(filter_value)
    THEN ("$orderby" :> <<orderby_key, " asc">>)
         @@ ("$filter" :> <<replication_key, " ge ", filter_value>>)
    ELSE ("$orderby" :> <<orderby_key, " asc">>)

\* ','.join(l): the names with a comma between each two
RECURSIVE join(_)
join(l) ==
    IF Len(l) = 0 THEN <<>>
    ELSE IF Len(l) = 1 THEN <<l[1]>>
    ELSE <<l[1], ",">> \o join(Tail(l))

\* len() of a joined text: a comma is one character, a name has its column's length
RECURSIVE len(_)
len(text) ==
    IF Len(text) = 0 THEN 0
    ELSE (IF text[1] = "," THEN 1 ELSE (CHOOSE c \in Columns : c.name = text[1]).len)
         + len(Tail(text))

\* mutant of build_select_params: a text of exactly MAX_SELECT_PARAM_SIZE is refused
build_select_paramsGe(desired_columns) ==
    IF desired_columns = NoColumns \/ Len(desired_columns[1]) = 0
    THEN <<>>
    ELSE LET select_columns == join(desired_columns[1])
         IN IF len(select_columns) >= MAX_SELECT_PARAM_SIZE
            THEN <<>>
            ELSE ("$select" :> select_columns)

\* the dict build_select_params returns; {} is the function of no key
build_select_params(desired_columns) ==
    IF desired_columns = NoColumns \/ Len(desired_columns[1]) = 0
    THEN <<>>
    ELSE LET select_columns == join(desired_columns[1])
         IN IF len(select_columns) > MAX_SELECT_PARAM_SIZE
            THEN <<>>
            ELSE ("$select" :> select_columns)

\* mutant of ErrorMessage: message read after error_code, so lost when ["code"] raises
ErrorMessageAfterCode(body) ==
    IF body.json /\ body.error = "object" /\ body.code # Missing /\ body.message # Missing
    THEN body.message[1]
    ELSE NONE

\* error_json["error"]["message"] as get's try block leaves message: None when
\* response.json(), ["error"] or ["message"] raises
ErrorMessage(body) ==
    IF body.json /\ body.error = "object" /\ body.message # Missing
    THEN body.message[1]
    ELSE NONE

\* error_json["error"]["code"] as get's try block leaves error_code: it is read after
\* message, so it is None also when reading message raised
ErrorCode(body) ==
    IF body.json /\ body.error = "object" /\ body.message # Missing /\ body.code # Missing
    THEN body.code[1]
    ELSE NONE

DynamicsApiError(text) ==
    [exc |-> "SymonException", code |-> "dynamics.DynamicsApiError", text |-> text]
\* the exception _make_request raised, as it is
Original(kind) == [exc |-> kind, code |-> NONE, text |-> <<>>]

\* get: what it returns or raises for what _make_request returned or raised
get(raised, body) ==
    IF raised = "ok" THEN Return("results")
    ELSE IF raised \in DynamicsExceptions
    THEN LET message == ErrorMessage(body)
             error_code == ErrorCode(body)
         IN IF message # NONE /\ error_code # NONE
            THEN Raises(DynamicsApiError(
                    <<"Import failed with the following MS Dynamics error: ",
                      "(error code: ", error_code, ") ", message>>))
            ELSE IF message # NONE
            THEN Raises(DynamicsApiError(
                    <<"Import failed with the following MS Dynamics error: ", message>>))
            ELSE Raises(Original(raised))
    ELSE Raises(Original(raised))

\* ----------------------------------------------------------- the calls
CallsInit ==
    /\ ClientInit
    /\ access_token = NONE
    /\ NoSync
    /\ result = NoResult
    /\ \/ /\ fn = "status_code"
          /\ \E s \in StatusCodes : args = [status_code |-> s]
       \/ /\ fn = "get"
          /\ args \in GetInputs
       \/ /\ fn = "build_params"
          /\ \E o \in KeyColumns, r \in KeyColumns, f \in FilterValues :
                args = [orderby_key |-> o, replication_key |-> r, filter_value |-> f]
       \/ /\ fn = "build_select_params"
          /\ \E d \in DesiredColumns : args = [desired_columns |-> d]
       \/ /\ fn = "__init__"
          /\ \E m \in Pagesizes : args = [max_pagesize |-> m]

Returns(name, r) ==
    /\ fn = name
    /\ result = NoResult
    /\ result' = r
    /\ UNCHANGED <<fn, args, clientVars, syncVars>>

\* _make_request's if / elif chain on the status of the response it received
CheckStatus ==
    /\ fn = "status_code"
    /\ LET e == Classify([id |-> 1, status |-> args.status_code, retry_after |-> NoHeader])
       IN Returns("status_code",
                  IF e.kind = "ok" THEN Return([kind |-> e.kind, layer |-> Layer(e.kind)])
                  ELSE Raises([kind |-> e.kind, layer |-> Layer(e.kind)]))

Get ==
    /\ fn = "get"
    /\ Returns("get", get(args.raised, args.body))

BuildParams ==
    /\ fn = "build_params"
    /\ Returns("build_params",
               Return(build_params(args.orderby_key, args.replication_key,
                                   args.filter_value)))

BuildSelectParams ==
    /\ fn = "build_select_params"
    /\ Returns("build_select_params", Return(build_select_params(args.desired_columns)))

ClientConstructed ==
    /\ fn = "__init__"
    /\ Returns("__init__", Return(InitMaxPagesize(args.max_pagesize)))

CallsNext ==
    \/ CheckStatus
    \/ Get
    \/ BuildParams
    \/ BuildSelectParams
    \/ ClientConstructed

CallsSpec == CallsInit /\ [][CallsNext]_vars

\* the call of the named function has returned or raised
Called(name) == fn = name /\ result.kind # "none"

\* C11: when a Dynamics5xxException, Dynamics4xxException or Dynamics429Exception leaves
\* _make_request, get raises DynamicsApiError naming code and message if the body's error
\* object holds both, DynamicsApiError with the message only if it holds a message and no
\* code, and the original exception otherwise; every other exception passes through as it is.
C11_GetTranslatesErrors ==
    Called("get") =>
        LET b == args.body
            structured == b.json /\ b.error = "object"
            hasMessage == structured /\ b.message \notin {Missing, <<NONE>>}
            hasCode == structured /\ b.code \notin {Missing, <<NONE>>}
        IN IF args.raised = "ok" THEN result.kind = "return"
           ELSE /\ result.kind = "raise"
                /\ IF args.raised \in DynamicsExceptions /\ hasMessage
                   THEN /\ result.value.code = "dynamics.DynamicsApiError"
                        /\ b.message[1] = result.value.text[Len(result.value.text)]
                        /\ IF hasCode
                           THEN /\ Len(result.value.text) = 5
                                /\ result.value.text[3] = b.code[1]
                           ELSE Len(result.value.text) = 2
                   ELSE result.value = Original(args.raised)

\* a 4xx whose body holds a message and no code, raised as DynamicsApiError
C11_Witness ==
    /\ Called("get")
    /\ args.raised = "Dynamics4xxException"
    /\ args.body.message # Missing
    /\ args.body.code = Missing
    /\ result.value.code = "dynamics.DynamicsApiError"
    /\ Len(result.value.text) = 2

\* C12: a status s is classified Dynamics5xxException iff s >= 500, Dynamics429Exception
\* iff s = 429, Dynamics4xxException iff 400 <= s < 500 and s # 429, success iff s < 400;
\* exactly one of the four holds, and a 429 is not retried by the backoff.expo layer.
C12_StatusClassification ==
    Called("status_code") =>
        LET s == args.status_code
            k == result.value.kind
        IN /\ k = "Dynamics5xxException" <=> s >= 500
           /\ k = "Dynamics429Exception" <=> s = 429
           /\ k = "Dynamics4xxException" <=> (400 <= s /\ s < 500 /\ s # 429)
           /\ k = "ok" <=> s < 400
           /\ (result.kind = "return") <=> (k = "ok")
           /\ Cardinality({c \in {"Dynamics5xxException", "Dynamics429Exception",
                                  "Dynamics4xxException", "ok"} : c = k}) = 1
           /\ s = 429 => result.value.layer = "retry_after"
           /\ result.value.layer = "expo" => s # 429

\* a 429, raised as Dynamics429Exception for the retry_after_wait_gen layer
C12_Witness ==
    /\ Called("status_code")
    /\ args.status_code = 429
    /\ result.kind = "raise"
    /\ result.value.layer = "retry_after"

\* C13 as stated: build_params returns an $orderby that orders by the replication key
\* ascending for every combination of arguments, and a $filter "<replication key> ge
\* <bookmark>" if and only if there is a bookmark.
C13_OrderbyReplicationKey ==
    Called("build_params") =>
        /\ "$orderby" \in DOMAIN result.value
        /\ result.value["$orderby"] = <<args.replication_key, " asc">>
        /\ ("$filter" \in DOMAIN result.value) <=> args.filter_value \notin {NONE, ""}
        /\ "$filter" \in DOMAIN result.value =>
               result.value["$filter"] = <<args.replication_key, " ge ", args.filter_value>>

\* C13 as amended: build_params returns an $orderby that orders by orderby_key ascending,
\* which is the replication key when both arguments name the same column, and a $filter
\* "<replication_key> ge <filter_value>" if and only if filter_value is neither None nor
\* empty; it returns no other parameter.
C13_OrderbyOrderbyKey ==
    Called("build_params") =>
        /\ result.kind = "return"
        /\ DOMAIN result.value \subseteq {"$orderby", "$filter"}
        /\ "$orderby" \in DOMAIN result.value
        /\ result.value["$orderby"] = <<args.orderby_key, " asc">>
        /\ args.orderby_key = args.replication_key =>
               result.value["$orderby"] = <<args.replication_key, " asc">>
        /\ ("$filter" \in DOMAIN result.value) <=> args.filter_value \notin {NONE, ""}
        /\ "$filter" \in DOMAIN result.value =>
               result.value["$filter"] = <<args.replication_key, " ge ", args.filter_value>>

\* a call with an orderby_key other than the replication key and an empty filter_value
C13_Witness ==
    /\ Called("build_params")
    /\ args.orderby_key # args.replication_key
    /\ args.filter_value = ""
    /\ DOMAIN result.value = {"$orderby"}

\* the length in characters of the names of l joined by commas
RECURSIVE JoinedLength(_)
JoinedLength(l) ==
    IF Len(l) = 0 THEN 0
    ELSE (CHOOSE c \in Columns : c.name = l[1]).len
         + (IF Len(l) > 1 THEN 1 ELSE 0) + JoinedLength(Tail(l))

\* C14: build_select_params returns, without raising, a $select of all the desired columns
\* in their order with commas between when the list is not empty and the joined text is at
\* most MAX_SELECT_PARAM_SIZE = 1800 long, and no parameter at all when the text is longer
\* or the list is empty or None; it never returns a part of the list.
C14_SelectAllOrNothing ==
    Called("build_select_params") =>
        LET d == args.desired_columns
            fits == d # NoColumns /\ Len(d[1]) > 0 /\ JoinedLength(d[1]) <= 1800
        IN /\ result.kind = "return"
           /\ IF fits
              THEN /\ DOMAIN result.value = {"$select"}
                   /\ LET text == result.value["$select"]
                      IN /\ Len(text) = 2 * Len(d[1]) - 1
                         /\ \A i \in 1 .. Len(d[1]) : text[2 * i - 1] = d[1][i]
                         /\ \A i \in 1 .. Len(d[1]) - 1 : text[2 * i] = ","
              ELSE DOMAIN result.value = {}

\* two columns whose joined text is exactly 1800 characters, returned as $select
C14_Witness ==
    /\ Called("build_select_params")
    /\ args.desired_columns = <<(<<"c899", "c900">>)>>
    /\ DOMAIN result.value = {"$select"}

\* C15: the max_pagesize the client stores is never above MAX_PAGESIZE = 5000: it is the
\* configured value when that is at most 5000, 5000 when it is larger, and 5000 when no
\* value is configured.
C15_PagesizeCapped ==
    Called("__init__") =>
        /\ result.value <= 5000
        /\ IF args.max_pagesize = NoPagesize THEN result.value = 5000
           ELSE IF args.max_pagesize[1] <= 5000 THEN result.value = args.max_pagesize[1]
           ELSE result.value = 5000

\* a configured page size above the ceiling, stored as 5000
C15_Witness ==
    /\ Called("__init__")
    /\ args.max_pagesize = <<10000>>
    /\ result.value = 5000

\* ======================================================================
\* sync (src/tap_dynamics/sync.py): the loop over the selected streams.
\* stream_obj.sync, the sync of one stream, is taken from its contract:
\* page after page it emits the page's records and writes the state with
\* the stream's bookmark advanced, until no page remains and it returns
\* the state, or until a page request raises.  A bookmark is the number
\* of pages of the stream synced so far.
\* ======================================================================

\* ---------------------------------------------------------------- bounds
\* the most pages one stream has
MaxPages == 2

\* ---------------------------------------------------------------- inputs
\* tap_stream_id of the catalog's streams, in catalog order
StreamIds == <<"accounts", "contacts", "leads">>
StreamIdSet == {StreamIds[i] : i \in 1 .. Len(StreamIds)}
\* catalogs: each stream selected or not
Catalogs ==
    {[i \in 1 .. Len(StreamIds) |-> [tap_stream_id |-> StreamIds[i], selected |-> sel[i]]] :
        sel \in [1 .. Len(StreamIds) -> BOOLEAN]}
\* currently_syncing of the state sync is called with: None, a stream of the catalog, or
\* a stream the catalog no longer has
Markers == {NONE, "opportunities"} \cup StreamIdSet
States == {[currently_syncing |-> m, bookmarks |-> [id \in StreamIdSet |-> 0]] : m \in Markers}

\* ------------------------------------------------------- singer's functions
\* mutant of set_currently_syncing: the state returned as it was
set_currently_syncingNoOp(st, tap_stream_id) == st

\* singer.set_currently_syncing(state, tap_stream_id)
set_currently_syncing(st, tap_stream_id) == [st EXCEPT !.currently_syncing = tap_stream_id]

\* Catalog._shuffle_streams(state): the streams from the one state marks as currently
\* syncing on, then the ones before it; all of them from the first when none is marked
shuffle_streams(cat, st) ==
    IF st.currently_syncing = NONE
    THEN cat
    ELSE LET matches == {i \in 1 .. Len(cat) : cat[i].tap_stream_id = st.currently_syncing}
             matching_index == IF matches = {} THEN 1
                               ELSE CHOOSE i \in matches : \A j \in matches : i <= j
         IN SubSeq(cat, matching_index, Len(cat)) \o SubSeq(cat, 1, matching_index - 1)

IsSelected(entry) == entry.selected

\* Catalog.get_selected_streams(state): the selected streams of the shuffled catalog
get_selected_streams(cat, st) == SelectSeq(shuffle_streams(cat, st), IsSelected)

\* a message on stdout: its type, the stream of the iteration that wrote it, the place that
\* wrote it ("start", "schema", "records", "page", "returned", "end") and, for a STATE,
\* the state written
Message(type, id, at, value) == [type |-> type, stream |-> id, at |-> at, value |-> value]

\* ------------------------------------------------------------ the actions
SyncInit ==
    /\ ClientInit
    /\ access_token = NONE
    /\ NoCall
    /\ catalog \in Catalogs
    /\ state \in States
    /\ state_in = state
    /\ todo = <<>>
    /\ sync_pc = "call"
    /\ stream = NONE
    /\ fetched = 0
    /\ written = <<>>

\* sync is called: the for statement asks get_selected_streams for the streams
SyncCalled ==
    /\ sync_pc = "call"
    /\ todo' = get_selected_streams(catalog, state)
    /\ sync_pc' = "loop"
    /\ UNCHANGED <<catalog, state, state_in, stream, fetched, written, clientVars, callVars>>

\* the next stream: it is marked as currently syncing and the state is written
StartStream ==
    /\ sync_pc = "loop"
    /\ todo # <<>>
    /\ stream' = Head(todo).tap_stream_id
    /\ todo' = Tail(todo)
    /\ state' = set_currently_syncing(state, stream')
    /\ written' = Append(written, Message("STATE", stream', "start", state'))
    /\ fetched' = 0
    /\ sync_pc' = "schema"
    /\ UNCHANGED <<catalog, state_in, clientVars, callVars>>

\* singer.write_schema for the stream
WriteSchema ==
    /\ sync_pc = "schema"
    /\ written' = Append(written, Message("SCHEMA", stream, "schema", <<>>))
    /\ sync_pc' = "stream"
    /\ UNCHANGED <<catalog, state, state_in, todo, stream, fetched, clientVars, callVars>>

\* stream_obj.sync gets a page: its records are emitted, the bookmark advances and the
\* state is written
StreamSyncPage ==
    /\ sync_pc = "stream"
    /\ fetched < MaxPages
    /\ fetched' = fetched + 1
    /\ state' = [state EXCEPT !.bookmarks[stream] = @ + 1]
    /\ written' = written \o <<Message("RECORD", stream, "records", <<>>),
                               Message("STATE", stream, "page", state')>>
    /\ UNCHANGED <<catalog, state_in, todo, sync_pc, stream, clientVars, callVars>>

\* stream_obj.sync's request for a page raises: the exception leaves stream_obj.sync
\* and, with nothing in sync to catch it, sync
StreamSyncFails ==
    /\ sync_pc = "stream"
    /\ sync_pc' = "failed"
    /\ UNCHANGED <<catalog, state, state_in, todo, stream, fetched, written, clientVars,
                   callVars>>

\* stream_obj.sync finds no further page and returns the state
StreamSyncReturns ==
    /\ sync_pc = "stream"
    /\ sync_pc' = "returned"
    /\ UNCHANGED <<catalog, state, state_in, todo, stream, fetched, written, clientVars,
                   callVars>>

\* mutant of WriteReturnedState: the returned state is not written
WriteReturnedStateSkipped ==
    /\ sync_pc = "returned"
    /\ sync_pc' = "loop"
    /\ UNCHANGED <<catalog, state, state_in, todo, stream, fetched, written, clientVars,
                   callVars>>

\* the state stream_obj.sync returned is written
WriteReturnedState ==
    /\ sync_pc = "returned"
    /\ written' = Append(written, Message("STATE", stream, "returned", state))
    /\ sync_pc' = "loop"
    /\ UNCHANGED <<catalog, state, state_in, todo, stream, fetched, clientVars, callVars>>

\* mutant of Finish: the marker is cleared and the state written on a failed run too
FinishAlways ==
    /\ \/ sync_pc = "loop" /\ todo = <<>>
       \/ sync_pc = "failed"
    /\ state' = set_currently_syncing(state, NONE)
    /\ written' = Append(written, Message("STATE", stream, "end", state'))
    /\ sync_pc' = "done"
    /\ UNCHANGED <<catalog, state_in, todo, stream, fetched, clientVars, callVars>>

\* after the loop: the marker is cleared and the state written
Finish ==
    /\ sync_pc = "loop"
    /\ todo = <<>>
    /\ state' = set_currently_syncing(state, NONE)
    /\ written' = Append(written, Message("STATE", stream, "end", state'))
    /\ sync_pc' = "done"
    /\ UNCHANGED <<catalog, state_in, todo, stream, fetched, clientVars, callVars>>

SyncNext ==
    \/ SyncCalled
    \/ StartStream
    \/ WriteSchema
    \/ StreamSyncPage
    \/ StreamSyncFails
    \/ StreamSyncReturns
    \/ WriteReturnedState
    \/ Finish

SyncSpec == SyncInit /\ [][SyncNext]_vars

\* ------------------------------------------------------- claims on sync
\* the streams started so far, in the order they were started
Started == SelectSeq(written, LAMBDA m : m.at = "start")
\* the selected streams of the catalog
Selected == {catalog[i].tap_stream_id : i \in {j \in 1 .. Len(catalog) : catalog[j].selected}}
\* place of a stream in the catalog
Place(id) == CHOOSE i \in 1 .. Len(catalog) : catalog[i].tap_stream_id = id
\* the last STATE message written
LastState ==
    written[CHOOSE i \in 1 .. Len(written) :
               /\ written[i].type = "STATE"
               /\ \A j \in i + 1 .. Len(written) : written[j].type # "STATE"]

\* for each stream the events come in the order start, schema, pages, returned, and a
\* stream starts only after the returned state of the one before it is written
EventsInOrder ==
    \A i \in 1 .. Len(written) :
        LET m == written[i]
            first == i = 1
            after(places) == /\ ~first
                             /\ written[i - 1].at \in places
                             /\ written[i - 1].stream = m.stream
        IN /\ m.at = "start" => /\ m.type = "STATE"
                                /\ m.value.currently_syncing = m.stream
                                /\ first \/ written[i - 1].at = "returned"
                                /\ \A j \in 1 .. i - 1 : written[j].stream # m.stream
           /\ m.at = "schema" => m.type = "SCHEMA" /\ after({"start"})
           /\ m.at = "records" => m.type = "RECORD" /\ after({"schema", "page"})
           /\ m.at = "page" => m.type = "STATE" /\ after({"records"})
           /\ m.at = "returned" => m.type = "STATE" /\ after({"schema", "page"})
           /\ m.at = "end" => /\ m.type = "STATE"
                              /\ i = Len(written)
                              /\ first \/ written[i - 1].at = "returned"

\* the place of a stream counted from place from, round the end of the catalog
PlaceFrom(from, id) == (Place(id) - from) % Len(catalog)

\* the streams started are the first selected streams of the catalog read from place from
\* on, round its end; when sync is done they are all the selected streams
StartedInOrderFrom(from) ==
    /\ \A i \in 1 .. Len(Started) :
          /\ Started[i].stream \in Selected
          /\ \A id \in Selected :
                PlaceFrom(from, id) < PlaceFrom(from, Started[i].stream) =>
                    \E j \in 1 .. i - 1 : Started[j].stream = id
    /\ sync_pc = "done" => \A id \in Selected : \E i \in 1 .. Len(Started) : Started[i].stream = id

\* C16 as stated: the selected streams are processed one after another in catalog order,
\* each with its events in the order state written with the stream marked, schema written,
\* stream synced, returned state written, and no event of a stream before the returned
\* state of the stream before it is written.
C16_CatalogOrder ==
    /\ EventsInOrder
    /\ StartedInOrderFrom(1)

\* the place of the stream the incoming state marks as currently syncing; 1 when it marks
\* none of the catalog
MarkedPlace ==
    LET marked == {i \in 1 .. Len(catalog) :
                      catalog[i].tap_stream_id = state_in.currently_syncing}
    IN IF marked = {} THEN 1 ELSE CHOOSE i \in marked : TRUE

\* C16 as amended: the selected streams are processed one after another in the order
\* get_selected_streams yields them: catalog order when the incoming state marks no stream
\* of the catalog as currently syncing, else catalog order begun at the marked stream and
\* carried on round the end of the catalog to the streams before it; each stream's events
\* come in the order stated, and no event of a stream comes before the returned state of
\* the stream before it is written.
C16_OrderFromMarkedStream ==
    /\ EventsInOrder
    /\ StartedInOrderFrom(MarkedPlace)

\* a run resumed at the second stream of the catalog that went on to the first
C16_Witness ==
    /\ state_in.currently_syncing = "contacts"
    /\ Len(Started) = 3
    /\ Started[1].stream = "contacts"
    /\ Started[3].stream = "accounts"
    /\ sync_pc = "done"

\* C17: when the sync of a stream raises, the run ends there: no later stream is started,
\* nothing more is written, and the last state written is the one written after the last
\* page synced (or at the stream's start): no state of the failing page replaces it.
C17_FailureAbortsRun ==
    /\ [](sync_pc = "failed" =>
             /\ LastState.at \in {"start", "page"}
             /\ LastState.stream = stream
             /\ LastState.value.bookmarks[stream] = fetched
             /\ LastState.value = state)
    /\ [][/\ sync_pc = "failed" => FALSE
          /\ sync_pc' = "failed" => (written' = written /\ state' = state /\ todo' = todo)]_vars

\* a stream failed on its second page with a selected stream still to come
C17_Witness ==
    /\ sync_pc = "failed"
    /\ fetched = 1
    /\ todo # <<>>
    /\ Len(Started) = 1

\* C19: every state written from the start of a stream until the next stream starts names
\* that stream as currently syncing; when all selected streams are done the last state
\* written has the marker None; when the run fails in a stream the last state written
\* names that stream, and no state with the marker cleared is written.
C19_MarkerTracksStream ==
    /\ \A i \in 1 .. Len(written) :
          written[i].type = "STATE" =>
              IF written[i].at = "end"
              THEN written[i].value.currently_syncing = NONE
              ELSE written[i].value.currently_syncing = written[i].stream
    /\ sync_pc = "done" =>
          /\ written[Len(written)].at = "end"
          /\ LastState.value.currently_syncing = NONE
          /\ \A id \in Selected : \E i \in 1 .. Len(written) :
                written[i].at = "returned" /\ written[i].stream = id
    /\ sync_pc = "failed" =>
          /\ LastState.value.currently_syncing = stream
          /\ stream # NONE
          /\ \A i \in 1 .. Len(written) : written[i].at # "end"

\* a run that failed in its second stream, after a page of it
C19_Witness ==
    /\ sync_pc = "failed"
    /\ Len(Started) = 2
    /\ fetched = 1
    /\ LastState.value.currently_syncing = Started[2].stream
    /\ state_in.currently_syncing = NONE

====
